---- MODULE Spec2Model ----
(***************************************************************************)
(* Model of playlist_export_import.py: export_playlist and import_playlist *)
(* run against a catalog (the PlexServer handle).  The catalog is state:   *)
(* its playlists in enumeration order, the keys fetchItem answers, the     *)
(* answer of search(guid=...), and the attributes of the media objects.    *)
(*                                                                         *)
(* JSON values are tagged tuples: None is <<"null">>, an integer n is      *)
(* <<"int", n>>, a string s is <<"str", s>>.  A media object handle is its *)
(* positive integer key; the Python None of `obj = None` is NoObj.         *)
(***************************************************************************)
EXTENDS Integers, Sequences, FiniteSets, TLC

VARIABLES
    playlists,        \* catalog: the collections, in plex.playlists() order
    nextKey,          \* catalog: the ratingKey the next created playlist gets
    fetchable,        \* catalog: the keys for which plex.fetchItem(rk) returns an object
    searchRes,        \* catalog: guid string -> outcome of plex.search(guid=g)
    library,          \* catalog: object -> its attributes (guid, guids, type, title)
    jsonFile,         \* the document file import_playlist is given
    fs,               \* the output location of export_playlist: directory and files
    exported,         \* outcome of the last export_playlist call
    pc,               \* position of import_playlist
    data,             \* import_playlist: the loaded document
    delete_existing,  \* import_playlist: the flag
    idx,              \* import_playlist: number of items the loop has processed
    found,            \* import_playlist: found
    missing,          \* import_playlist: missing
    todo,             \* import_playlist: playlists still to visit in the delete loop
    calls,            \* catalog calls issued by the current import run, in order
    pre,              \* the catalog's playlists when the current import run began
    resolution,       \* per processed item, the object it resolved to (NoObj: missing)
    runs,             \* number of import runs started
    prevPartition,    \* partition (found, missing) the previous run's resolution produced
    nExports          \* number of export_playlist calls made

vars == <<playlists, nextKey, fetchable, searchRes, library, jsonFile, fs, exported,
          pc, data, delete_existing, idx, found, missing, todo, calls, pre,
          resolution, runs, prevPartition, nExports>>

catalogItems == <<fetchable, searchRes, library>>
importVars == <<pc, data, delete_existing, idx, found, missing, todo, calls, pre,
                resolution, runs, prevPartition>>
exportVars == <<fs, exported, nExports>>

----------------------------------------------------------------------------
(* Bounds of the model *)

MaxItems == 2
MaxPlaylists == 2
MaxRuns == 2
MaxExports == 1

----------------------------------------------------------------------------
(* Values *)

None == <<"null">>
IntV(n) == <<"int", n>>
StrV(s) == <<"str", s>>
NoObj == 0

\* Python truthiness of a JSON value: None, 0 and "" are false
Truthy(v) == v # None /\ v # IntV(0) /\ v # StrV("")

\* str(x) for the values str is applied to
StrOf(v) ==
    IF v = None THEN StrV("None")
    ELSE IF v[1] = "int" THEN StrV(ToString(v[2]))
    ELSE v

\* re.sub(r"[^A-Za-z0-9._-]", "_", s) on the titles of the model
sanitize_filename(s) == IF s = "Road Trip" THEN "Road_Trip" ELSE s

Objs == {1, 2, 3}
Titles == {"Road Trip", "12"}
GuidStrs == {"g1"}

SeqsUpTo(S, n) == UNION {[1..k -> S] : k \in 0..n}

----------------------------------------------------------------------------
(* The catalog's answers *)

\* plex.fetchItem(rk): the object with that key, or an exception
fetchItem(rk) ==
    IF rk[1] = "int" /\ rk[2] \in fetchable
    THEN [ok |-> TRUE, obj |-> rk[2]]
    ELSE [ok |-> FALSE, obj |-> NoObj]

\* plex.search(guid=g): a list of objects, or an exception
search(g) ==
    IF g[1] = "str" /\ g[2] \in DOMAIN searchRes
    THEN searchRes[g[2]]
    ELSE [ok |-> TRUE, res |-> <<>>]

----------------------------------------------------------------------------
(* import_playlist *)

\* `if rk:`
FetchAttempted(it) == Truthy(it.ratingKey)

\* obj after the fetch block: the fetched object, or None when the fetch is
\* skipped or raises
AfterFetch(it) ==
    IF FetchAttempted(it) /\ fetchItem(it.ratingKey).ok
    THEN fetchItem(it.ratingKey).obj
    ELSE NoObj

SearchAlways(it, obj) == Truthy(it.guid)

\* `if obj is None and g:`
SearchAttempted(it, obj) == obj = NoObj /\ Truthy(it.guid)

\* obj after the search block: res[0] when the search returns a non-empty list
AfterSearch(it, obj) ==
    IF SearchAttempted(it, obj)
    THEN LET r == search(it.guid)
         IN  IF r.ok /\ r.res # <<>> THEN r.res[1] ELSE NoObj
    ELSE obj

\* the object one iteration of the loop ends with
ResolveItem(it) == AfterSearch(it, AfterFetch(it))

\* the catalog calls one iteration of the loop issues, tagged with the item's index
ItemCalls(i, it) ==
    (IF FetchAttempted(it) THEN << <<"fetchItem", i, it.ratingKey>> >> ELSE <<>>)
    \o (IF SearchAttempted(it, AfterFetch(it))
        THEN << <<"search", i, it.guid>> >> ELSE <<>>)

InitFoundStale == found

\* `found = []`
InitFound == <<>>

FoundPrepend(f, obj) == <<obj>> \o f

\* `found.append(obj)`
FoundAppend(f, obj) == Append(f, obj)

NeverEmpty(f) == FALSE

AbortOnMissing(f) == f = <<>> \/ missing # <<>>

\* `if not found:`
IsEmptyResult(f) == f = <<>>

MatchesAny(p, title) == TRUE

\* `if p.title == title:`
MatchesTitle(p, title) == p.title = title

\* the arguments of plex.createPlaylist(title, items=found)
CreateArgs == [title |-> data.title, items |-> found]

Idle == pc \in {"idle", "done", "failed_empty", "failed_enumerate", "failed_create"}

RemoveKey(pls, k) == SelectSeq(pls, LAMBDA q : q.ratingKey # k)

\* lines 104-110: load the document, start with empty found and missing
ImportBegin(de) ==
    /\ Idle
    /\ runs' = runs + 1
    /\ prevPartition' = IF runs = 0 THEN prevPartition
                        ELSE [valid |-> TRUE, found |-> found, missing |-> missing]
    /\ data' = jsonFile
    /\ delete_existing' = de
    /\ idx' = 0
    /\ found' = InitFound
    /\ missing' = <<>>
    /\ resolution' = <<>>
    /\ todo' = <<>>
    /\ calls' = <<>>
    /\ pre' = playlists
    /\ pc' = "resolve"
    /\ UNCHANGED <<playlists, nextKey, catalogItems, jsonFile, exportVars>>

\* the first import_playlist call on the document file
ImportStart(de) == runs = 0 /\ ImportBegin(de)

\* a later import_playlist call on the same document file
ImportAgain(de) == runs > 0 /\ runs < MaxRuns /\ ImportBegin(de)

\* lines 111-130: one iteration of the resolution loop
ResolveStep ==
    /\ pc = "resolve"
    /\ idx < Len(data.items)
    /\ LET it == data.items[idx + 1]
           obj == ResolveItem(it)
       IN  /\ calls' = calls \o ItemCalls(idx + 1, it)
           /\ resolution' = Append(resolution, obj)
           /\ IF obj # NoObj
              THEN found' = FoundAppend(found, obj) /\ missing' = missing
              ELSE missing' = Append(missing, it) /\ found' = found
    /\ idx' = idx + 1
    /\ UNCHANGED <<playlists, nextKey, catalogItems, jsonFile, exportVars, pc, data,
                   delete_existing, todo, pre, runs, prevPartition>>

\* lines 132-137: the empty-result abort, then the branch on delete_existing
CheckEmpty ==
    /\ pc = "resolve"
    /\ idx = Len(data.items)
    /\ pc' = IF IsEmptyResult(found) THEN "failed_empty"
             ELSE IF delete_existing THEN "enumerate"
             ELSE "create"
    /\ UNCHANGED <<playlists, nextKey, catalogItems, jsonFile, exportVars, data,
                   delete_existing, idx, found, missing, todo, calls, pre, resolution,
                   runs, prevPartition>>

\* line 138: plex.playlists(), outside any try block: an exception ends the run
Enumerate ==
    /\ pc = "enumerate"
    /\ calls' = Append(calls, <<"playlists">>)
    /\ \E ok \in BOOLEAN :
          IF ok
          THEN /\ todo' = playlists
               /\ pc' = IF playlists = <<>> THEN "create" ELSE "delete"
          ELSE /\ todo' = todo
               /\ pc' = "failed_enumerate"
    /\ UNCHANGED <<playlists, nextKey, catalogItems, jsonFile, exportVars, data,
                   delete_existing, idx, found, missing, pre, resolution, runs,
                   prevPartition>>

\* lines 139-146: one iteration of the delete loop; p.delete() may raise, and then
\* plex.deletePlaylist(p) is tried and may raise too
DeleteStep ==
    /\ pc = "delete"
    /\ todo # <<>>
    /\ LET p == Head(todo)
       IN  IF MatchesTitle(p, data.title)
           THEN \E outcome \in {"deleted", "fallback", "raised"} :
                   /\ calls' = calls \o
                         (IF outcome = "deleted"
                          THEN << <<"delete", p.ratingKey>> >>
                          ELSE << <<"delete", p.ratingKey>>,
                                  <<"deletePlaylist", p.ratingKey>> >>)
                   /\ playlists' = IF outcome = "raised" THEN playlists
                                   ELSE RemoveKey(playlists, p.ratingKey)
           ELSE UNCHANGED <<calls, playlists>>
    /\ todo' = Tail(todo)
    /\ pc' = IF Tail(todo) = <<>> THEN "create" ELSE "delete"
    /\ UNCHANGED <<nextKey, catalogItems, jsonFile, exportVars, data, delete_existing,
                   idx, found, missing, pre, resolution, runs, prevPartition>>

\* line 148: plex.createPlaylist(title, items=found); an exception ends the run
Create ==
    /\ pc = "create"
    /\ calls' = Append(calls, <<"createPlaylist", CreateArgs.title, CreateArgs.items>>)
    /\ \E ok \in BOOLEAN :
          IF ok
          THEN /\ playlists' = Append(playlists,
                                 [ratingKey |-> nextKey, title |-> CreateArgs.title,
                                  items |-> CreateArgs.items])
               /\ nextKey' = nextKey + 1
               /\ pc' = "done"
          ELSE /\ UNCHANGED <<playlists, nextKey>>
               /\ pc' = "failed_create"
    /\ UNCHANGED <<catalogItems, jsonFile, exportVars, data, delete_existing, idx,
                   found, missing, todo, pre, resolution, runs, prevPartition>>

----------------------------------------------------------------------------
(* export_playlist *)

\* `p.title == title_or_key or str(getattr(p, "ratingKey", "")) == str(title_or_key)`
MatchesSelector(p, sel) == p.title = sel \/ ToString(p.ratingKey) = sel

SelectLast(pls, sel) ==
    LET hits == {i \in 1..Len(pls) : MatchesSelector(pls[i], sel)}
    IN  IF hits = {} THEN 0 ELSE CHOOSE i \in hits : \A j \in hits : j <= i

\* lines 70-74: index of the first playlist that matches, 0 when pl stays None
SelectPlaylist(pls, sel) ==
    LET hits == {i \in 1..Len(pls) : MatchesSelector(pls[i], sel)}
    IN  IF hits = {} THEN 0 ELSE CHOOSE i \in hits : \A j \in hits : i <= j

ExportGuidListFirst(attrs) ==
    IF attrs.guids # <<>> THEN StrOf(attrs.guids[1])
    ELSE IF Truthy(attrs.guid) THEN StrOf(attrs.guid)
    ELSE None

\* lines 80-87: the guid recorded for a member
ExportGuid(attrs) ==
    IF Truthy(attrs.guid) THEN StrOf(attrs.guid)
    ELSE IF attrs.guids # <<>> THEN StrOf(attrs.guids[1])
    ELSE None

\* lines 88-93: the record of one member
ExportItem(o) ==
    [ratingKey |-> IntV(o), guid |-> ExportGuid(library[o]),
     type |-> library[o].type, title |-> library[o].title]

ExportDataReversed(pl) ==
    [playlist |-> [title |-> pl.title, ratingKey |-> pl.ratingKey],
     items |-> [j \in 1..Len(pl.items) |-> ExportItem(pl.items[Len(pl.items) + 1 - j])]]

\* lines 78-93: the document built from the selected playlist
ExportData(pl) ==
    [playlist |-> [title |-> pl.title, ratingKey |-> pl.ratingKey],
     items |-> [j \in 1..Len(pl.items) |-> ExportItem(pl.items[j])]]

\* line 96: the file name, from the title and the key
FileName(d) == <<sanitize_filename(d.playlist.title), d.playlist.ratingKey>>

\* lines 95-99: makedirs(outdir, exist_ok=True), then the file is written
WriteFile(f, d) ==
    [dir |-> TRUE,
     files |-> {x \in f.files : x.name # FileName(d)}
               \cup {[name |-> FileName(d), data |-> d]}]

NoExport == [status |-> "none", selector |-> "", index |-> 0, data |-> <<>>]

\* lines 69-100: the whole call; pl.items() may raise, before anything is written
ExportPlaylist(sel) ==
    /\ Idle
    /\ nExports < MaxExports
    /\ nExports' = nExports + 1
    /\ LET i == SelectPlaylist(playlists, sel)
       IN  IF i = 0
           THEN /\ exported' = [status |-> "notfound", selector |-> sel, index |-> 0,
                                data |-> <<>>]
                /\ fs' = fs
           ELSE \E itemsOk \in BOOLEAN :
                   IF itemsOk
                   THEN /\ exported' = [status |-> "ok", selector |-> sel, index |-> i,
                                        data |-> ExportData(playlists[i])]
                        /\ fs' = WriteFile(fs, ExportData(playlists[i]))
                   ELSE /\ exported' = [status |-> "error", selector |-> sel,
                                        index |-> i, data |-> <<>>]
                        /\ fs' = fs
    /\ UNCHANGED <<playlists, nextKey, catalogItems, jsonFile, importVars>>

----------------------------------------------------------------------------
(* Initial states *)

TrackType == StrV("track")

Item(rk, g) == [ratingKey |-> rk, guid |-> g, type |-> TrackType, title |-> None]

\* the item records a document may hold: the ratingKey is null, 0 or a key, the
\* guid null, "" or a guid string
ItemRecords ==
    {Item(None, None), Item(IntV(0), StrV("")), Item(IntV(1), None),
     Item(None, StrV("g1")), Item(IntV(1), StrV("g1")), Item(IntV(0), StrV("g1"))}

Docs == [title : Titles, items : SeqsUpTo(ItemRecords, MaxItems)]

SearchOutcomes ==
    {[ok |-> FALSE, res |-> <<>>], [ok |-> TRUE, res |-> <<>>],
     [ok |-> TRUE, res |-> <<3, 1>>]}

Profiles ==
    [guid : {None, StrV(""), StrV("plex://a")},
     guids : {<<>>, <<StrV("imdb://a"), StrV("tmdb://a")>>},
     type : {TrackType}, title : {StrV("Song")}]

DefaultLibrary ==
    [o \in Objs |->
        [guid |-> IF o = 2 THEN None ELSE StrV("plex://a"),
         guids |-> IF o = 3 THEN <<>> ELSE <<StrV("imdb://a"), StrV("tmdb://a")>>,
         type |-> TrackType, title |-> StrV("Song")]]

PresetMembers(i) == IF i = 1 THEN <<3, 1, 2>> ELSE <<2>>

FirstKey == 11

\* the playlists a catalog holds before the program runs: keys k[i], any titles
PlaylistsWith(keys) ==
    {[i \in 1..Len(keys) |->
        [ratingKey |-> keys[i], title |-> t[i], items |-> PresetMembers(i)]] :
     t \in [1..Len(keys) -> Titles]}

InitialPlaylists ==
    UNION {PlaylistsWith([i \in 1..n |-> FirstKey + i - 1]) : n \in 0..MaxPlaylists}

InitProgram ==
    /\ fs = [dir |-> FALSE, files |-> {}]
    /\ exported = NoExport
    /\ nExports = 0
    /\ pc = "idle"
    /\ data = [title |-> "", items |-> <<>>]
    /\ delete_existing = TRUE
    /\ idx = 0
    /\ found = <<>>
    /\ missing = <<>>
    /\ todo = <<>>
    /\ calls = <<>>
    /\ pre = <<>>
    /\ resolution = <<>>
    /\ runs = 0
    /\ prevPartition = [valid |-> FALSE, found |-> <<>>, missing |-> <<>>]

Init ==
    /\ playlists \in InitialPlaylists
    /\ nextKey = FirstKey + MaxPlaylists
    /\ fetchable \in SUBSET {1}
    /\ searchRes \in [GuidStrs -> SearchOutcomes]
    /\ library = DefaultLibrary
    /\ jsonFile \in Docs
    /\ InitProgram

\* a catalog with at most one playlist that answers every fetch and every search
InitRoundTrip ==
    /\ Init
    /\ Len(playlists) <= 1
    /\ fetchable = {1}
    /\ \A g \in GuidStrs : searchRes[g] = [ok |-> TRUE, res |-> <<3, 1>>]

\* a catalog with at most one playlist
InitRerun ==
    /\ Init
    /\ Len(playlists) <= 1

\* every assignment of the keys FirstKey.. to n playlists
KeyOrders(n) ==
    {k \in [1..n -> FirstKey..(FirstKey + n - 1)] :
        \A i, j \in 1..n : i # j => k[i] # k[j]}

InitExport ==
    /\ playlists \in UNION {PlaylistsWith(k) : k \in UNION {KeyOrders(n) : n \in 0..MaxPlaylists}}
    /\ nextKey = FirstKey + MaxPlaylists
    /\ fetchable = {1}
    /\ searchRes = [g \in GuidStrs |-> [ok |-> TRUE, res |-> <<>>]]
    /\ library \in [Objs -> Profiles]
    /\ jsonFile = [title |-> "Road Trip", items |-> <<>>]
    /\ InitProgram

Selectors == Titles \cup {ToString(k) : k \in FirstKey..(FirstKey + MaxPlaylists)}
             \cup {"no such playlist"}

Next ==
    \/ \E de \in BOOLEAN : ImportStart(de)
    \/ ResolveStep
    \/ CheckEmpty
    \/ Enumerate
    \/ DeleteStep
    \/ Create

NextExport == \E sel \in Selectors : ExportPlaylist(sel)

NextRerun == Next \/ \E de \in BOOLEAN : ImportAgain(de)

NextRoundTrip == Next \/ NextExport

\* one import_playlist run
Spec == Init /\ [][Next]_vars

\* repeated import_playlist runs on the same document
SpecRerun == InitRerun /\ [][NextRerun]_vars

\* export_playlist runs, over every attribute profile of the members
SpecExport == InitExport /\ [][NextExport]_vars

\* import_playlist and export_playlist runs on the same catalog
SpecRoundTrip == InitRoundTrip /\ [][NextRoundTrip]_vars

----------------------------------------------------------------------------
(* Vocabulary of the properties, stated on the catalog and the document and not
   on the operators of import_playlist and export_playlist above *)

\* an identifier is present: it holds a value other than null, 0 and ""
Present(v) == v \notin {None, IntV(0), StrV("")}

KeyFetched(it) ==
    /\ Present(it.ratingKey)
    /\ it.ratingKey[1] = "int"
    /\ it.ratingKey[2] \in fetchable

SearchHit(it) ==
    /\ Present(it.guid)
    /\ it.guid[1] = "str"
    /\ it.guid[2] \in DOMAIN searchRes
    /\ searchRes[it.guid[2]].ok
    /\ searchRes[it.guid[2]].res # <<>>

\* the two-tier rule: the fetched object, else the first search result, else missing
ExpectedObj(it) ==
    IF KeyFetched(it) THEN it.ratingKey[2]
    ELSE IF SearchHit(it) THEN searchRes[it.guid[2]].res[1]
    ELSE NoObj

ExpectedResolution(doc) == [j \in 1..Len(doc.items) |-> ExpectedObj(doc.items[j])]

ExpectedFound(doc) == SelectSeq(ExpectedResolution(doc), LAMBDA o : o # NoObj)

ExpectedMissing(doc) == SelectSeq(doc.items, LAMBDA it : ExpectedObj(it) = NoObj)

CallsNamed(names) == SelectSeq(calls, LAMBDA c : c[1] \in names)

DeleteCalls == CallsNamed({"delete", "deletePlaylist"})

CreateCalls == CallsNamed({"createPlaylist"})

Failed == pc \in {"failed_empty", "failed_enumerate", "failed_create"}

Ended == pc = "done" \/ Failed

\* the resolution loop of the current run is over
Resolved == runs > 0 /\ pc # "resolve"

Titled(pls, t) == SelectSeq(pls, LAMBDA p : p.title = t)

KeysOf(pls) == {pls[i].ratingKey : i \in 1..Len(pls)}

----------------------------------------------------------------------------
(* Properties *)

\* C1: a run that resolves zero items ends with the empty-result failure, has issued
\* no enumeration, delete or create call, and leaves every collection as it was
C1_EmptyGuard ==
    (Resolved /\ ExpectedFound(jsonFile) = <<>>) =>
        /\ pc = "failed_empty"
        /\ DeleteCalls = <<>>
        /\ CreateCalls = <<>>
        /\ playlists = pre

C1_Witness ==
    /\ pc = "failed_empty"
    /\ delete_existing
    /\ data.items # <<>>
    /\ Titled(playlists, data.title) # <<>>

\* C2: the create call carries the document's title and the resolved objects in
\* document order, the missing items filtered out
C2_CreateArguments ==
    \A i \in 1..Len(calls) :
        calls[i][1] = "createPlaylist" =>
            /\ calls[i][2] = jsonFile.title
            /\ calls[i][3] = ExpectedFound(jsonFile)

C2_Witness ==
    /\ pc = "done"
    /\ Len(found) = 2
    /\ found[1] # found[2]

\* C3: a run that ends with a failure leaves the collections carrying the
\* document's title, and their members, as they were before the run
C3_NoPartialState ==
    Failed => Titled(playlists, data.title) = Titled(pre, data.title)

\* C4: per processed item, the fetch is issued exactly when the ratingKey is present,
\* the search exactly when the item is still unresolved and the guid is present, and
\* the item resolves by the two-tier rule
C4_TwoTierRule ==
    \A j \in 1..Len(resolution) :
        LET it == data.items[j]
            fetches == SelectSeq(calls, LAMBDA c : c[1] = "fetchItem" /\ c[2] = j)
            searches == SelectSeq(calls, LAMBDA c : c[1] = "search" /\ c[2] = j)
        IN  /\ fetches = IF Present(it.ratingKey)
                         THEN << <<"fetchItem", j, it.ratingKey>> >> ELSE <<>>
            /\ searches = IF ~KeyFetched(it) /\ Present(it.guid)
                          THEN << <<"search", j, it.guid>> >> ELSE <<>>
            /\ resolution[j] = ExpectedObj(it)

C4_Witness ==
    \E j \in 1..Len(resolution) :
        /\ \E c \in {calls[i] : i \in 1..Len(calls)} : c[1] = "fetchItem" /\ c[2] = j
        /\ \E c \in {calls[i] : i \in 1..Len(calls)} : c[1] = "search" /\ c[2] = j
        /\ resolution[j] # NoObj

C6_DeleteFrame ==
    /\ \A i \in 1..Len(calls) :
          calls[i][1] \in {"delete", "deletePlaylist"} =>
              /\ delete_existing
              /\ \E k \in 1..Len(pre) :
                    pre[k].ratingKey = calls[i][2] /\ pre[k].title = jsonFile.title
    /\ \A i \in 1..Len(calls) :
          calls[i][1] = "createPlaylist" =>
              /\ i = Len(calls)
              /\ delete_existing =>
                    \A k \in 1..Len(pre) :
                        pre[k].title = jsonFile.title =>
                            \E d \in 1..(i - 1) : calls[d] = <<"delete", pre[k].ratingKey>>
    /\ \A k \in 1..Len(pre) :
          (~delete_existing \/ pre[k].title # jsonFile.title) =>
              \E m \in 1..Len(playlists) : playlists[m] = pre[k]
    /\ (runs > 0 /\ ~delete_existing) =>
          IF pc = "done"
          THEN /\ Len(playlists) = Len(pre) + 1
               /\ SubSeq(playlists, 1, Len(pre)) = pre
               /\ playlists[Len(playlists)].title = jsonFile.title
          ELSE playlists = pre

C6_Witness ==
    /\ pc = "done"
    /\ delete_existing
    /\ \E k \in 1..Len(pre) : pre[k].title = data.title
    /\ \E k \in 1..Len(pre) : pre[k].title # data.title

ExportedMember(j) == playlists[exported.index].items[j]

\* C7 as stated: the exported guid is the first entry of the member's guids list when
\* the list has one, otherwise the member's guid field, otherwise null
C7_ListFirst ==
    exported.status = "ok" =>
        \A j \in 1..Len(exported.data.items) :
            LET a == library[ExportedMember(j)]
            IN  exported.data.items[j].guid =
                    IF a.guids # <<>> THEN a.guids[1]
                    ELSE IF Present(a.guid) THEN a.guid
                    ELSE None

\* C7, amended: the exported guid is the member's guid field when that is set,
\* otherwise the first entry of the member's guids list, otherwise null
C7_SingularFirst ==
    exported.status = "ok" =>
        \A j \in 1..Len(exported.data.items) :
            LET a == library[ExportedMember(j)]
            IN  exported.data.items[j].guid =
                    IF Present(a.guid) THEN a.guid
                    ELSE IF a.guids # <<>> THEN a.guids[1]
                    ELSE None

C7_Witness ==
    /\ exported.status = "ok"
    /\ \E j \in 1..Len(exported.data.items) :
          /\ library[ExportedMember(j)].guids # <<>>
          /\ Present(library[ExportedMember(j)].guid)
          /\ exported.data.items[j].guid = library[ExportedMember(j)].guid

SelectorHits(sel) ==
    {i \in 1..Len(playlists) :
        playlists[i].title = sel \/ ToString(playlists[i].ratingKey) = sel}

\* C8: an export call selects the first collection, in enumeration order, whose title
\* or stringified key equals the selector and writes that collection's members; with
\* no match it fails and creates neither directory nor file; it never changes the
\* catalog
C8_ExportSelection ==
    [][nExports' # nExports =>
          LET sel == exported'.selector
              hits == SelectorHits(sel)
          IN  /\ playlists' = playlists
              /\ nextKey' = nextKey
              /\ catalogItems' = catalogItems
              /\ IF hits = {}
                 THEN exported'.status = "notfound" /\ fs' = fs
                 ELSE /\ exported'.status \in {"ok", "error"}
                      /\ \A i \in hits : exported'.index <= i
                      /\ exported'.index \in hits
                      /\ exported'.status = "error" => fs' = fs
                      /\ exported'.status = "ok" =>
                            LET pl == playlists[exported'.index]
                            IN  /\ exported'.data.playlist =
                                      [title |-> pl.title, ratingKey |-> pl.ratingKey]
                                /\ Len(exported'.data.items) = Len(pl.items)
                                /\ \A j \in 1..Len(pl.items) :
                                      exported'.data.items[j].ratingKey = IntV(pl.items[j])
                                /\ fs'.dir
                                /\ \E f \in fs'.files : f.data = exported'.data
      ]_vars

C8_Witness ==
    /\ exported.status = "ok"
    /\ \E i, k \in 1..Len(playlists) :
          /\ i < k
          /\ ToString(playlists[i].ratingKey) = exported.selector
          /\ playlists[k].title = exported.selector

\* C9: exporting the collection an import run created yields one item per resolved
\* item of the document, in the document's order
C9_RoundTripOrder ==
    (pc = "done" /\ exported.status = "ok"
        /\ exported.data.playlist.ratingKey = nextKey - 1) =>
        [j \in 1..Len(exported.data.items) |-> exported.data.items[j].ratingKey]
            = [j \in 1..Len(ExpectedFound(jsonFile)) |-> IntV(ExpectedFound(jsonFile)[j])]

C9_Witness ==
    /\ pc = "done"
    /\ exported.status = "ok"
    /\ exported.data.playlist.ratingKey = nextKey - 1
    /\ Len(exported.data.items) = 2
    /\ exported.data.items[1].ratingKey # exported.data.items[2].ratingKey
    /\ Titled(pre, data.title) # <<>>

====
